---- MODULE Spec2Model ----
(***************************************************************************)
(* Catch-the-balls game (simple_game.py): the Game object, its two Tk      *)
(* timer loops (update, spawn_ball), the key bindings and restart.         *)
(*                                                                         *)
(* root.after(ms, f) is modelled as a pending timer with the time left     *)
(* until it is due; time passes by jumping to the next deadline, a due     *)
(* timer runs its callback, and key events may arrive at any instant.      *)
(***************************************************************************)
EXTENDS Integers, Sequences, FiniteSets, Bags

\* ---- program constants (simple_game.py:18-25) ----
WIDTH == 500
HEIGHT == 400
PADDLE_WIDTH == 100
PADDLE_HEIGHT == 12
BALL_RADIUS == 12
BALL_FALL_SPEED == 4
SPAWN_INTERVAL == 1200
UPDATE_DELAY == 20
\* local `speed` of update()
speed == 8
\* initial number of lives
START_LIVES == 3

\* ---- bounds of the exploration ----
\* key press/release events delivered in one run
MaxKeys == 1
\* runs of restart() in one run; time stops after the last of them
MaxRestarts == 2
\* time stops once the score of the current game reaches this value
MaxScore == 2
\* in the steering model the clock stops at this many spawned balls
MaxEarlySpawns == 2
\* in the one-tick model at most this many balls are live
MaxBalls == 3

\* values random.randint(BALL_RADIUS, WIDTH - BALL_RADIUS) is drawn from
BallXs == {152}

VARIABLES
    paddle_x,    \* self.paddle_x
    paddle,      \* canvas coords of the paddle rectangle: <<px1, px2>>
    score,       \* self.score
    lives,       \* self.lives
    move_left,   \* self.move_left
    move_right,  \* self.move_right
    balls,       \* self.balls: sequence of [x, y] (centre of the oval)
    game_over,   \* self.game_over
    overlays,    \* number of "Game Over" texts on the canvas
    r_bound,     \* whether "r" is bound to restart()
    timers,      \* bag of pending root.after callbacks [cb, due]
    spawned,     \* balls created since construction or the last restart
    keys,        \* key press/release events delivered so far
    restarts,    \* restart() runs so far
    last         \* the handler that ran last, and what it did

vars == <<paddle_x, paddle, score, lives, move_left, move_right, balls,
          game_over, overlays, r_bound, timers, spawned, keys, restarts, last>>

\* ---- geometry ----
\* y coordinate of the paddle's top edge
PaddleTop == HEIGHT - 30 - PADDLE_HEIGHT

\* canvas.create_rectangle(paddle_x - PADDLE_WIDTH/2, ..., paddle_x + PADDLE_WIDTH/2, ...)
PaddleRect(px) == <<px - PADDLE_WIDTH \div 2, px + PADDLE_WIDTH \div 2>>

\* canvas.move(self.paddle, d, 0)
MoveRect(rect, d) == <<rect[1] + d, rect[2] + d>>

\* ---- timers ----
Timer(cb, due) == [cb |-> cb, due |-> due]

\* root.after(ms, cb)
After(tm, ms, cb) == tm (+) SetToBag({Timer(cb, ms)})

\* a due timer is taken off the queue when its callback runs
Taken(tm, cb) == tm (-) SetToBag({Timer(cb, 0)})

\* pending callbacks of one kind
Pending(tm, cb) ==
    LET S == {t \in BagToSet(tm) : t.cb = cb}
        F[T \in SUBSET S] ==
            IF T = {} THEN 0
            ELSE LET t == CHOOSE u \in T : TRUE IN tm[t] + F[T \ {t}]
    IN F[S]

\* time left until the next deadline
NextDue(tm) ==
    LET D == {t.due : t \in BagToSet(tm)}
    IN CHOOSE d \in D : \A e \in D : d <= e

\* d time units pass
Elapse(tm, d) ==
    [t \in {Timer(u.cb, u.due - d) : u \in BagToSet(tm)} |->
        tm[Timer(t.cb, t.due + d)]]

\* ---- update(): the paddle part (lines 111-131) ----
PaddleDx(ml, mr) == IF ml THEN -speed ELSE IF mr THEN speed ELSE 0

\* faulty variant: the paddle is moved but never clamped
MovePaddleNoClamp(px, rect, ml, mr) ==
    LET dx == PaddleDx(ml, mr)
    IN IF dx # 0 THEN [paddle_x |-> px + dx, paddle |-> MoveRect(rect, dx)]
       ELSE [paddle_x |-> px, paddle |-> rect]

\* faulty variant: the clamp shifts by the overshoot with the wrong sign
MovePaddleWrongShift(px, rect, ml, mr) ==
    LET dx == PaddleDx(ml, mr)
        px1 == px + dx
        r1 == MoveRect(rect, dx)
        left == px1 - PADDLE_WIDTH \div 2
        right == px1 + PADDLE_WIDTH \div 2
        px2 == IF left < 0 THEN px1 + left ELSE px1
        r2 == IF left < 0 THEN MoveRect(r1, left) ELSE r1
        px3 == IF right > WIDTH THEN px2 + (right - WIDTH) ELSE px2
        r3 == IF right > WIDTH THEN MoveRect(r2, right - WIDTH) ELSE r2
    IN IF dx # 0 THEN [paddle_x |-> px3, paddle |-> r3]
       ELSE [paddle_x |-> px, paddle |-> rect]

MovePaddle(px, rect, ml, mr) ==
    LET dx == PaddleDx(ml, mr)
        px1 == px + dx
        r1 == MoveRect(rect, dx)
        left == px1 - PADDLE_WIDTH \div 2
        right == px1 + PADDLE_WIDTH \div 2
        px2 == IF left < 0 THEN px1 + (-left) ELSE px1
        r2 == IF left < 0 THEN MoveRect(r1, -left) ELSE r1
        px3 == IF right > WIDTH THEN px2 + (WIDTH - right) ELSE px2
        r3 == IF right > WIDTH THEN MoveRect(r2, WIDTH - right) ELSE r2
    IN IF dx # 0 THEN [paddle_x |-> px3, paddle |-> r3]
       ELSE [paddle_x |-> px, paddle |-> rect]

\* ---- update(): the ball loop (lines 134-159) ----
\* faulty variant: the miss test comes before the catch test
ClassifyMissFirst(x, y, rect) ==
    IF y - BALL_RADIUS > HEIGHT THEN "Missed"
    ELSE IF y + BALL_RADIUS >= PaddleTop /\ rect[1] <= x /\ x <= rect[2]
    THEN "Caught"
    ELSE "Falling"

\* faulty variant: a ball is missed as soon as its top edge touches the bottom edge
ClassifyMissAtEdge(x, y, rect) ==
    IF y + BALL_RADIUS >= PaddleTop /\ rect[1] <= x /\ x <= rect[2]
    THEN "Caught"
    ELSE IF y - BALL_RADIUS >= HEIGHT THEN "Missed"
    ELSE "Falling"

\* outcome of one ball after it has been advanced to (x, y)
Classify(x, y, rect) ==
    IF y + BALL_RADIUS >= PaddleTop /\ rect[1] <= x /\ x <= rect[2]
    THEN "Caught"
    ELSE IF y - BALL_RADIUS > HEIGHT THEN "Missed"
    ELSE "Falling"

\* end_game(): sets the flag, draws the overlay, binds "r"
EndGame(s) == [s EXCEPT !.game_over = TRUE,
                        !.overlays = @ + 1,
                        !.r_bound = TRUE]

\* faulty variant: a missed ball is charged to the score as well
BallStepMissCostsScore(s, rect, b) ==
    LET y == b.y + BALL_FALL_SPEED
        moved == [x |-> b.x, y |-> y]
        out == Classify(b.x, y, rect)
        r == CASE out = "Caught" -> [s EXCEPT !.score = @ + 1]
               [] out = "Missed" ->
                     LET s2 == [s EXCEPT !.lives = @ - 1, !.score = @ - 1]
                     IN IF s2.lives <= 0 THEN EndGame(s2) ELSE s2
               [] OTHER -> [s EXCEPT !.balls = Append(@, moved)]
        entry == [x |-> b.x, y0 |-> b.y, y |-> y, px1 |-> rect[1], px2 |-> rect[2],
                  outcome |-> out, kept |-> Len(r.balls) > Len(s.balls),
                  lives0 |-> s.lives, lives1 |-> r.lives,
                  score0 |-> s.score, score1 |-> r.score,
                  over0 |-> s.game_over]
    IN [r EXCEPT !.log = Append(@, entry)]

\* faulty variant: a caught ball is scored but stays in self.balls
BallStepKeepsCaught(s, rect, b) ==
    LET y == b.y + BALL_FALL_SPEED
        moved == [x |-> b.x, y |-> y]
        out == Classify(b.x, y, rect)
        r == CASE out = "Caught" -> [s EXCEPT !.score = @ + 1, !.balls = Append(@, moved)]
               [] out = "Missed" ->
                     LET s2 == [s EXCEPT !.lives = @ - 1]
                     IN IF s2.lives <= 0 THEN EndGame(s2) ELSE s2
               [] OTHER -> [s EXCEPT !.balls = Append(@, moved)]
        entry == [x |-> b.x, y0 |-> b.y, y |-> y, px1 |-> rect[1], px2 |-> rect[2],
                  outcome |-> out, kept |-> Len(r.balls) > Len(s.balls),
                  lives0 |-> s.lives, lives1 |-> r.lives,
                  score0 |-> s.score, score1 |-> r.score,
                  over0 |-> s.game_over]
    IN [r EXCEPT !.log = Append(@, entry)]

\* faulty variant: a missed ball costs a life but stays in self.balls
BallStepKeepsMissed(s, rect, b) ==
    LET y == b.y + BALL_FALL_SPEED
        moved == [x |-> b.x, y |-> y]
        out == Classify(b.x, y, rect)
        r == CASE out = "Caught" -> [s EXCEPT !.score = @ + 1]
               [] out = "Missed" ->
                     LET s2 == [s EXCEPT !.lives = @ - 1, !.balls = Append(@, moved)]
                     IN IF s2.lives <= 0 THEN EndGame(s2) ELSE s2
               [] OTHER -> [s EXCEPT !.balls = Append(@, moved)]
        entry == [x |-> b.x, y0 |-> b.y, y |-> y, px1 |-> rect[1], px2 |-> rect[2],
                  outcome |-> out, kept |-> Len(r.balls) > Len(s.balls),
                  lives0 |-> s.lives, lives1 |-> r.lives,
                  score0 |-> s.score, score1 |-> r.score,
                  over0 |-> s.game_over]
    IN [r EXCEPT !.log = Append(@, entry)]

\* one iteration of `for ball in list(self.balls)` on snapshot element b;
\* the log entry records the ball, the branch taken and its effect
BallStep(s, rect, b) ==
    LET y == b.y + BALL_FALL_SPEED
        moved == [x |-> b.x, y |-> y]
        out == Classify(b.x, y, rect)
        r == CASE out = "Caught" -> [s EXCEPT !.score = @ + 1]
               [] out = "Missed" ->
                     LET s2 == [s EXCEPT !.lives = @ - 1]
                     IN IF s2.lives <= 0 THEN EndGame(s2) ELSE s2
               [] OTHER -> [s EXCEPT !.balls = Append(@, moved)]
        entry == [x |-> b.x, y0 |-> b.y, y |-> y, px1 |-> rect[1], px2 |-> rect[2],
                  outcome |-> out, kept |-> Len(r.balls) > Len(s.balls),
                  lives0 |-> s.lives, lives1 |-> r.lives,
                  score0 |-> s.score, score1 |-> r.score,
                  over0 |-> s.game_over]
    IN [r EXCEPT !.log = Append(@, entry)]

\* faulty variant: the loop breaks at game over and the rest stays in self.balls
RECURSIVE BallLoopStops(_, _, _, _)
BallLoopStops(s, rect, snapshot, i) ==
    IF i > Len(snapshot) THEN s
    ELSE IF s.game_over
         THEN BallLoopStops([s EXCEPT !.balls = Append(@, snapshot[i])],
                            rect, snapshot, i + 1)
         ELSE BallLoopStops(BallStep(s, rect, snapshot[i]), rect, snapshot, i + 1)

RECURSIVE BallLoop(_, _, _, _)
BallLoop(s, rect, snapshot, i) ==
    IF i > Len(snapshot) THEN s
    ELSE CHOOSE r \in {BallLoop(t, rect, snapshot, i + 1) :
                          t \in {BallStep(s, rect, snapshot[i])}} : TRUE

\* ---- the state the handlers work on, as a record ----
Self == [paddle_x |-> paddle_x, paddle |-> paddle, score |-> score, lives |-> lives,
         balls |-> balls, game_over |-> game_over, overlays |-> overlays,
         r_bound |-> r_bound, timers |-> timers, log |-> <<>>]

\* faulty variant: balls are tested against the paddle as it was before the move
UpdateStalePaddle(s, ml, mr) ==
    IF s.game_over THEN s
    ELSE LET p == MovePaddle(s.paddle_x, s.paddle, ml, mr)
             s1 == [s EXCEPT !.paddle_x = p.paddle_x, !.paddle = p.paddle,
                             !.balls = <<>>]
             s2 == BallLoop(s1, s.paddle, s.balls, 1)
         IN IF ~s2.game_over
            THEN [s2 EXCEPT !.timers = After(@, UPDATE_DELAY, "update")]
            ELSE s2

\* update() (lines 107-163) on state s with the movement flags ml, mr
Update(s, ml, mr) ==
    IF s.game_over THEN s
    ELSE LET Frame(p) ==
                 LET s1 == [s EXCEPT !.paddle_x = p.paddle_x, !.paddle = p.paddle,
                                     !.balls = <<>>]
                     s2 == BallLoop(s1, p.paddle, s.balls, 1)
                 IN IF ~s2.game_over
                    THEN [s2 EXCEPT !.timers = After(@, UPDATE_DELAY, "update")]
                    ELSE s2
         IN CHOOSE r \in {Frame(p) : p \in {MovePaddle(s.paddle_x, s.paddle, ml, mr)}} : TRUE

\* faulty variant: spawn_ball without its game_over guard
SpawnBallNoGuard(s, x) ==
    [s EXCEPT !.balls = Append(@, [x |-> x, y |-> -BALL_RADIUS]),
              !.timers = After(@, SPAWN_INTERVAL, "spawn_ball")]

\* faulty variant: the ball is created on the top edge and x is taken as its left edge
SpawnBallCorner(s, x) ==
    IF s.game_over THEN s
    ELSE [s EXCEPT !.balls = Append(@, [x |-> x - BALL_RADIUS, y |-> 0]),
                   !.timers = After(@, SPAWN_INTERVAL, "spawn_ball")]

\* spawn_ball() (lines 99-105) with the random x
SpawnBall(s, x) ==
    IF s.game_over THEN s
    ELSE [s EXCEPT !.balls = Append(@, [x |-> x, y |-> -BALL_RADIUS]),
                   !.timers = After(@, SPAWN_INTERVAL, "spawn_ball")]

\* faulty variant: restart without `self.balls = []`
RestartKeepsBalls(s, ml, mr) ==
    LET s1 == [s EXCEPT !.overlays = 0,
                        !.paddle_x = WIDTH \div 2,
                        !.paddle = PaddleRect(WIDTH \div 2),
                        !.score = 0,
                        !.lives = START_LIVES,
                        !.game_over = FALSE,
                        !.timers = After(@, SPAWN_INTERVAL, "spawn_ball")]
    IN Update(s1, ml, mr)

\* faulty variant: restart without `self.paddle_x = WIDTH / 2` and the new rectangle
RestartKeepsPaddle(s, ml, mr) ==
    LET s1 == [s EXCEPT !.overlays = 0,
                        !.score = 0,
                        !.lives = START_LIVES,
                        !.balls = <<>>,
                        !.game_over = FALSE,
                        !.timers = After(@, SPAWN_INTERVAL, "spawn_ball")]
    IN Update(s1, ml, mr)

\* restart() (lines 185-203)
Restart(s, ml, mr) ==
    LET s1 == [s EXCEPT !.overlays = 0,
                        !.paddle_x = WIDTH \div 2,
                        !.paddle = PaddleRect(WIDTH \div 2),
                        !.score = 0,
                        !.lives = START_LIVES,
                        !.balls = <<>>,
                        !.game_over = FALSE,
                        !.timers = After(@, SPAWN_INTERVAL, "spawn_ball")]
    IN Update(s1, ml, mr)

\* writes a handler's result back
Store(s) ==
    /\ paddle_x' = s.paddle_x
    /\ paddle' = s.paddle
    /\ score' = s.score
    /\ lives' = s.lives
    /\ balls' = s.balls
    /\ game_over' = s.game_over
    /\ overlays' = s.overlays
    /\ r_bound' = s.r_bound
    /\ timers' = s.timers

\* what is remembered of a handler run: its name, its ball-loop log, its
\* argument (set_move's dir) and the state it started from
Did(op, s) == [op |-> op, log |-> s.log, arg |-> 0, was_over |-> game_over,
               had |-> Len(balls), lives |-> lives, score |-> score,
               paddle_x |-> paddle_x]

\* ---- Game.__init__ (lines 49-84) ----
Init ==
    /\ paddle_x = WIDTH \div 2
    /\ paddle = PaddleRect(WIDTH \div 2)
    /\ score = 0
    /\ lives = START_LIVES
    /\ move_left = FALSE
    /\ move_right = FALSE
    /\ balls = <<>>
    /\ game_over = FALSE
    /\ overlays = 0
    /\ r_bound = FALSE
    /\ timers = After(After(EmptyBag, SPAWN_INTERVAL, "spawn_ball"),
                      UPDATE_DELAY, "update")
    /\ spawned = 0
    /\ keys = 0
    /\ restarts = 0
    /\ last = [op |-> "init", log |-> <<>>, arg |-> 0, was_over |-> FALSE,
               had |-> 0, lives |-> START_LIVES, score |-> 0,
               paddle_x |-> WIDTH \div 2]

\* ---- actions ----
\* time passes until the next timer is due
Advance ==
    /\ timers # EmptyBag
    /\ NextDue(timers) > 0
    /\ score < MaxScore
    /\ restarts < MaxRestarts
    /\ timers' = Elapse(timers, NextDue(timers))
    /\ UNCHANGED <<paddle_x, paddle, score, lives, move_left, move_right, balls,
                   game_over, overlays, r_bound, spawned, keys, restarts, last>>

\* a due update timer fires
Tick ==
    /\ BagIn(Timer("update", 0), timers)
    /\ \E s \in {Update([Self EXCEPT !.timers = Taken(@, "update")],
                           move_left, move_right)} :
          /\ Store(s)
          /\ last' = Did("update", s)
    /\ UNCHANGED <<move_left, move_right, spawned, keys, restarts>>

\* a due spawn timer fires
Spawn ==
    /\ BagIn(Timer("spawn_ball", 0), timers)
    /\ \E x \in BallXs :
          LET s == SpawnBall([Self EXCEPT !.timers = Taken(@, "spawn_ball")], x)
          IN /\ Store(s)
             /\ last' = Did("spawn_ball", s)
    /\ spawned' = IF game_over THEN spawned ELSE spawned + 1
    /\ UNCHANGED <<move_left, move_right, keys, restarts>>

\* set_move(dir) (lines 86-97), reached from the four arrow-key bindings
SetMove(dir) ==
    /\ keys < MaxKeys
    /\ keys' = keys + 1
    /\ IF dir = -1
       THEN move_left' = TRUE /\ move_right' = FALSE
       ELSE IF dir = 1
            THEN move_right' = TRUE /\ move_left' = FALSE
            ELSE move_left' = FALSE /\ move_right' = FALSE
    /\ last' = [Did("set_move", Self) EXCEPT !.arg = dir]
    /\ UNCHANGED <<paddle_x, paddle, score, lives, balls, game_over, overlays,
                   r_bound, timers, spawned, restarts>>

KeyPressLeft == SetMove(-1)
KeyReleaseLeft == SetMove(0)
KeyPressRight == SetMove(1)
KeyReleaseRight == SetMove(0)

\* the "r" key: restart() once end_game has bound it, nothing before
KeyR ==
    /\ restarts < MaxRestarts
    /\ IF r_bound
       THEN /\ LET s == Restart(Self, move_left, move_right)
               IN /\ Store(s)
                  /\ last' = Did("restart", s)
            /\ spawned' = 0
            /\ restarts' = restarts + 1
       ELSE /\ last' = Did("key_r", Self)
            /\ UNCHANGED <<paddle_x, paddle, score, lives, balls, game_over,
                           overlays, r_bound, timers, spawned, restarts>>
    /\ UNCHANGED <<move_left, move_right, keys>>

Next ==
    \/ Advance
    \/ Tick
    \/ Spawn
    \/ KeyPressLeft
    \/ KeyReleaseLeft
    \/ KeyPressRight
    \/ KeyReleaseRight
    \/ KeyR

Spec == Init /\ [][Next]_vars

\* ---- the steering model: the first seconds of a game, keys without budget ----
\* the ends of randint(BALL_RADIUS, WIDTH - BALL_RADIUS) (line 102)
EdgeXs == {BALL_RADIUS, WIDTH - BALL_RADIUS}

\* time passes until the next timer is due
AdvanceEarly ==
    /\ timers # EmptyBag
    /\ NextDue(timers) > 0
    /\ spawned < MaxEarlySpawns
    /\ timers' = Elapse(timers, NextDue(timers))
    /\ UNCHANGED <<paddle_x, paddle, score, lives, move_left, move_right, balls,
                   game_over, overlays, r_bound, spawned, keys, restarts, last>>

\* a due spawn timer fires, the ball at either end of the range
SpawnEdge ==
    /\ BagIn(Timer("spawn_ball", 0), timers)
    /\ \E x \in EdgeXs :
          LET s == SpawnBall([Self EXCEPT !.timers = Taken(@, "spawn_ball")], x)
          IN /\ Store(s)
             /\ last' = Did("spawn_ball", s)
    /\ spawned' = IF game_over THEN spawned ELSE spawned + 1
    /\ UNCHANGED <<move_left, move_right, keys, restarts>>

\* faulty variant: a press does not clear the opposite flag
SteerKeepsOther(dir) ==
    /\ IF dir = -1
       THEN move_left' = TRUE /\ move_right' = move_right
       ELSE IF dir = 1
            THEN move_right' = TRUE /\ move_left' = move_left
            ELSE move_left' = FALSE /\ move_right' = FALSE
    /\ last' = [Did("set_move", Self) EXCEPT !.arg = dir]
    /\ UNCHANGED <<paddle_x, paddle, score, lives, balls, game_over, overlays,
                   r_bound, timers, spawned, keys, restarts>>

\* set_move(dir) (lines 86-97), any number of times
Steer(dir) ==
    /\ IF dir = -1
       THEN move_left' = TRUE /\ move_right' = FALSE
       ELSE IF dir = 1
            THEN move_right' = TRUE /\ move_left' = FALSE
            ELSE move_left' = FALSE /\ move_right' = FALSE
    /\ last' = [Did("set_move", Self) EXCEPT !.arg = dir]
    /\ UNCHANGED <<paddle_x, paddle, score, lives, balls, game_over, overlays,
                   r_bound, timers, spawned, keys, restarts>>

PressLeft == Steer(-1)
ReleaseLeft == Steer(0)
PressRight == Steer(1)
ReleaseRight == Steer(0)

NextEarly ==
    \/ AdvanceEarly
    \/ Tick
    \/ SpawnEdge
    \/ PressLeft
    \/ ReleaseLeft
    \/ PressRight
    \/ ReleaseRight

SpecEarly == Init /\ [][NextEarly]_vars

\* ---- the one-tick model: update() applied once to a drawn set of live balls ----
\* balls one tick before a miss (left and right of the paddle), one tick
\* before a catch, and in mid fall
SampleBalls == {[x |-> BALL_RADIUS, y |-> HEIGHT + BALL_RADIUS],
                [x |-> WIDTH - BALL_RADIUS, y |-> HEIGHT + BALL_RADIUS],
                [x |-> WIDTH \div 2, y |-> PaddleTop - BALL_RADIUS - 2],
                [x |-> 152, y |-> 100]}

InitPerm ==
    /\ paddle_x = WIDTH \div 2
    /\ paddle = PaddleRect(WIDTH \div 2)
    /\ score = 0
    /\ lives \in 1..START_LIVES
    /\ move_left = FALSE
    /\ move_right = FALSE
    /\ balls \in UNION {[1..n -> SampleBalls] : n \in 0..MaxBalls}
    /\ game_over = FALSE
    /\ overlays = 0
    /\ r_bound = FALSE
    /\ timers = After(After(EmptyBag, SPAWN_INTERVAL, "spawn_ball"), 0, "update")
    /\ spawned = Len(balls) + (START_LIVES - lives)
    /\ keys = 0
    /\ restarts = 0
    /\ last = [op |-> "init", log |-> <<>>, arg |-> 0, was_over |-> FALSE,
               had |-> Len(balls), lives |-> lives, score |-> 0,
               paddle_x |-> WIDTH \div 2]

NextPerm == Tick

SpecPerm == InitPerm /\ [][NextPerm]_vars

\* ---- one game under a fair event loop: no "r" key, due timers do fire ----
NextOneGame ==
    \/ Advance
    \/ Tick
    \/ Spawn
    \/ KeyPressLeft
    \/ KeyReleaseLeft
    \/ KeyPressRight
    \/ KeyReleaseRight

\* Tk's mainloop runs every due `after` callback and lets time pass
FairSpec ==
    /\ Init
    /\ [][NextOneGame]_vars
    /\ WF_vars(Tick)
    /\ WF_vars(Spawn)
    /\ WF_vars(Advance)

\* ---- properties ----
\* entries of the ball loop of the most recent update()
Log == {last.log[i] : i \in 1..Len(last.log)}
InSpan(e) == e.px1 <= e.x /\ e.x <= e.px2
AtPaddle(e) == e.y + BALL_RADIUS >= PaddleTop
BelowArea(e) == e.y - BALL_RADIUS > HEIGHT

\* C1: lives is always in 0..3: it never drops below 0, even when several
\* balls pass the bottom edge in the same tick, and never exceeds 3.
C1_LivesInRange == lives \in 0..START_LIVES

\* C2: when lives is 1 and a ball is missed in a tick, the game is over in
\* that tick and every ball after it in that tick is left unprocessed: not
\* moved, not removed, no change of score or lives.
C2_RestUnprocessed ==
    \A i \in 1..Len(last.log) :
        (last.op = "update" /\ last.log[i].outcome = "Missed" /\ last.log[i].lives0 = 1)
        => \A j \in (i + 1)..Len(last.log) :
              LET e == last.log[j]
              IN e.y = e.y0 /\ e.kept /\ e.lives1 = e.lives0 /\ e.score1 = e.score0

\* C3: while the game is Playing, pressing R changes nothing: score, lives,
\* live balls, paddle and pending timers stay as they are.
C3_RestartOnlyWhenOver ==
    [][(KeyR /\ ~game_over)
        => UNCHANGED <<score, lives, balls, paddle_x, paddle, timers>>]_vars

C5_OneSpawnTimer == Pending(timers, "spawn_ball") <= 1

\* C6: at most one update callback is pending: exactly one while Playing,
\* none while GameOver.
C6_OneUpdateTimer == Pending(timers, "update") = (IF game_over THEN 0 ELSE 1)

\* C7: restart(), from any state, yields score 0, lives 3, no live ball
\* and phase Playing.
C7_RestartResets ==
    last.op = "restart"
    => score = 0 /\ lives = START_LIVES /\ balls = <<>> /\ ~game_over

\* restart() has run on a finished game that still had live balls
C7_Witness ==
    /\ last.op = "restart"
    /\ last.was_over
    /\ last.had > 0
    /\ last.lives <= 0
    /\ balls = <<>>

\* C8: within one game end_game runs at most once (one overlay on the
\* canvas), and the game is over exactly when lives has reached 0.
C8_EndGameOnce ==
    /\ overlays <= 1
    /\ game_over <=> lives = 0

\* C9: a ball that, after advancing, has its bottom edge at or below the
\* paddle's top edge and its centre in the paddle's closed span is caught
\* (removed, score + 1) and costs no life, even when its top edge is already
\* below the play area.
C9_CatchBeforeMiss ==
    \A e \in Log :
        (AtPaddle(e) /\ InSpan(e))
        => /\ e.outcome = "Caught"
           /\ ~e.kept
           /\ e.lives1 = e.lives0
           /\ e.score1 = e.score0 + 1

\* a ball was caught with its top edge already below the play area
C9_Witness ==
    \E e \in Log : AtPaddle(e) /\ InSpan(e) /\ BelowArea(e) /\ e.outcome = "Caught"

\* C10: a ball at or below the paddle's top edge whose centre is outside
\* the paddle span stays live, with score and lives unchanged, on every tick
\* until its top edge is strictly below the play area; in that tick it is
\* removed and lives decreases by exactly 1.
C10_MissOnlyBelowArea ==
    \A e \in Log :
        (AtPaddle(e) /\ ~InSpan(e))
        => IF BelowArea(e)
           THEN ~e.kept /\ e.lives1 = e.lives0 - 1 /\ e.score1 = e.score0
           ELSE e.kept /\ e.lives1 = e.lives0 /\ e.score1 = e.score0

\* a ball outside the span fell past the paddle, touched the bottom edge
\* and was removed one tick later at the cost of one life
C10_Witness ==
    \E e \in Log :
        /\ ~InSpan(e)
        /\ BelowArea(e)
        /\ e.y0 - BALL_RADIUS = HEIGHT
        /\ ~e.kept
        /\ e.lives1 = e.lives0 - 1

\* the step of the paddle for the movement intent held now
IntentDx == IF move_left THEN -speed ELSE IF move_right THEN speed ELSE 0

\* number of entries of the last ball loop that satisfy P
RECURSIVE CountLog(_, _)
CountLog(P(_), n) ==
    IF n = 0 THEN 0
    ELSE CountLog(P, n - 1) + (IF P(last.log[n]) THEN 1 ELSE 0)
IsCatch(e) == AtPaddle(e) /\ InSpan(e)

\* C11: in one tick the balls at or below the paddle's top edge and inside
\* the closed span of the paddle as it is after this tick's paddle move are
\* exactly the balls that are removed with score + 1; no other ball changes
\* the score, and a caught ball never changes lives.
C11_CaughtScoresOne ==
    last.op = "update"
    => /\ \A e \in Log :
            /\ e.px1 = paddle_x - PADDLE_WIDTH \div 2
            /\ e.px2 = paddle_x + PADDLE_WIDTH \div 2
            /\ IF IsCatch(e)
               THEN e.score1 = e.score0 + 1 /\ e.lives1 = e.lives0 /\ ~e.kept
               ELSE e.score1 = e.score0
       /\ score = last.score + CountLog(IsCatch, Len(last.log))

\* a ball was caught on the left edge of a paddle that reached it in this tick
C11_Witness ==
    /\ last.op = "update"
    /\ last.paddle_x = paddle_x + speed
    /\ \E e \in Log : AtPaddle(e) /\ e.x = e.px1 /\ e.score1 = e.score0 + 1 /\ ~e.kept

\* C12: a tick never raises lives nor lowers score, and between two
\* restarts neither does a spawn or a key event.
C12_Monotone ==
    [][(restarts' = restarts) => (lives' <= lives /\ score' >= score)]_vars

\* ticks have taken a life and scored a point in the same game
C12_Witness ==
    /\ last.op = "update"
    /\ lives < last.lives
    /\ score > 0
    /\ ~game_over

\* C13: the paddle centre stays in [PADDLE_WIDTH/2, WIDTH - PADDLE_WIDTH/2]:
\* its left edge is >= 0 and its right edge <= WIDTH.
C13_PaddleInside ==
    /\ PADDLE_WIDTH \div 2 <= paddle_x
    /\ paddle_x <= WIDTH - PADDLE_WIDTH \div 2
    /\ paddle[1] >= 0
    /\ paddle[2] <= WIDTH

\* after a restart the paddle was driven into the left wall and held there
C13_Witness ==
    /\ restarts > 0
    /\ last.op = "update"
    /\ move_left
    /\ last.paddle_x = PADDLE_WIDTH \div 2
    /\ paddle_x = PADDLE_WIDTH \div 2
    /\ paddle[1] = 0

\* C18 (as claimed): right after restart() the paddle is at WIDTH/2 whatever
\* movement intent is held.
C18_RestartCentred == last.op = "restart" => paddle_x = WIDTH \div 2

\* C18 (amended): right after restart() the paddle is one frame's move away
\* from WIDTH/2: at WIDTH/2 + dx for the intent held, so at WIDTH/2 only
\* when no arrow key is held.
C18_RestartPaddle ==
    last.op = "restart"
    => /\ paddle_x = WIDTH \div 2 + IntentDx
       /\ paddle = <<paddle_x - PADDLE_WIDTH \div 2, paddle_x + PADDLE_WIDTH \div 2>>

\* restart() ran with Left held, from a paddle that was far from the centre
C18_Witness ==
    /\ last.op = "restart"
    /\ move_left
    /\ last.paddle_x < WIDTH \div 2 - speed
    /\ paddle_x = WIDTH \div 2 - speed

\* C19: the balls created since the start or the last restart are the
\* caught ones, the missed ones and the live ones; each ball processed in a
\* tick is counted once as caught or once as missed, or is kept.
C19_Conservation ==
    /\ spawned = score + (START_LIVES - lives) + Len(balls)
    /\ \A e \in Log :
          (e.score1 - e.score0) + (e.lives0 - e.lives1) = (IF e.kept THEN 0 ELSE 1)

\* after a restart: a ball caught, a ball missed and balls still live
C19_Witness ==
    /\ restarts > 0
    /\ score > 0
    /\ lives < START_LIVES
    /\ Len(balls) > 0
    /\ spawned > 2

\* C15: the movement intent is the one of the most recent key event alone
\* (Left press: Left; Right press: Right; any release: None), no other step
\* changes it, and move_left and move_right are never both true.
C15_LastKeyWins ==
    [][/\ ~(move_left' /\ move_right')
       /\ (last'.op = "set_move"
            => /\ move_left' = (last'.arg = -1)
               /\ move_right' = (last'.arg = 1))
       /\ (last'.op # "set_move"
            => move_left' = move_left /\ move_right' = move_right)]_vars

\* the most recent event is a Right press, with the paddle left of the centre
\* from earlier Left presses, and a ball in flight
C15_Witness ==
    /\ last.op = "set_move"
    /\ last.arg = 1
    /\ move_right
    /\ ~move_left
    /\ paddle_x < WIDTH \div 2
    /\ Len(balls) > 0

\* C16: every ball is created at y = -BALL_RADIUS with x in
\* [BALL_RADIUS, WIDTH - BALL_RADIUS] and keeps its x, so every live ball is
\* horizontally inside the play area.
C16_BallInsideAcross ==
    [][/\ \A i \in 1..Len(balls') :
             /\ balls'[i].x - BALL_RADIUS >= 0
             /\ balls'[i].x + BALL_RADIUS <= WIDTH
       /\ Len(balls') > Len(balls)
            => /\ Len(balls') = Len(balls) + 1
               /\ SubSeq(balls', 1, Len(balls)) = balls
               /\ balls'[Len(balls')].y = -BALL_RADIUS
       /\ Len(balls') = Len(balls)
            => \A i \in 1..Len(balls) : balls'[i].x = balls[i].x]_vars

\* a ball created on the left end of the range and one on the right end,
\* the first one fallen since
C16_Witness ==
    /\ Len(balls) = 2
    /\ balls[1].x = BALL_RADIUS
    /\ balls[1].y > 0
    /\ balls[2].x = WIDTH - BALL_RADIUS
    /\ balls[2].y = -BALL_RADIUS

\* clamp(v, lo, hi)
Clamp(v, lo, hi) == IF v < lo THEN lo ELSE IF v > hi THEN hi ELSE v

\* C17: a tick while Playing moves the paddle to
\* clamp(paddle_x + dx, PADDLE_WIDTH/2, WIDTH - PADDLE_WIDTH/2), dx = -8 for
\* Left, +8 for Right, 0 for None: on the wall when the move would cross
\* it, by exactly dx otherwise.
C17_MoveIsClamp ==
    (last.op = "update" /\ ~last.was_over)
    => /\ paddle_x = Clamp(last.paddle_x + IntentDx,
                           PADDLE_WIDTH \div 2, WIDTH - PADDLE_WIDTH \div 2)
       /\ paddle = <<paddle_x - PADDLE_WIDTH \div 2, paddle_x + PADDLE_WIDTH \div 2>>
       /\ IF last.paddle_x + IntentDx - PADDLE_WIDTH \div 2 < 0
          THEN paddle[1] = 0
          ELSE IF last.paddle_x + IntentDx + PADDLE_WIDTH \div 2 > WIDTH
               THEN paddle[2] = WIDTH
               ELSE paddle_x = last.paddle_x + IntentDx

\* a tick with Right held at the right wall: the move would cross it
C17_Witness ==
    /\ last.op = "update"
    /\ ~last.was_over
    /\ move_right
    /\ last.paddle_x = WIDTH - PADDLE_WIDTH \div 2
    /\ paddle[2] = WIDTH

\* the balls the last update() started with, in its order
Snapshot == [i \in 1..Len(last.log) |-> [x |-> last.log[i].x, y |-> last.log[i].y0]]
\* the state its ball loop started from
Before == [Self EXCEPT !.score = last.score, !.lives = last.lives,
                       !.balls = <<>>, !.game_over = FALSE]
OrdersOf(n) == {p \in [1..n -> 1..n] : \A i, j \in 1..n : i # j => p[i] # p[j]}
Outcome(s) == [score |-> s.score, lives |-> s.lives, game_over |-> s.game_over,
               live |-> {s.balls[i] : i \in 1..Len(s.balls)},
               count |-> Len(s.balls)]

\* C14: with the paddle where it is, the ball loop of a tick gives the same
\* score, lives and phase and removes the same balls in whatever order it
\* takes the live balls.
C14_OrderFree ==
    (last.op = "update" /\ ~last.was_over)
    => \A p \in OrdersOf(Len(last.log)) :
          Outcome(BallLoop(Before, paddle,
                           [i \in 1..Len(last.log) |-> Snapshot[p[i]]], 1))
            = Outcome(Self)

\* a tick in which the last life was lost to a ball taken before a ball
\* that was caught and a ball that was kept
C14_Witness ==
    /\ last.op = "update"
    /\ Len(last.log) = 3
    /\ last.log[1].outcome = "Missed"
    /\ last.log[1].lives1 = 0
    /\ last.log[2].outcome = "Caught"
    /\ last.log[3].kept
    /\ game_over
    /\ score = 1

\* balls of this game that have left the live set
Gone == spawned - Len(balls)

\* C20: with the tick timer weakly fair, every spawned ball leaves the live
\* set unless the game is over first (each of the first START_LIVES balls
\* leaves it in any case: the game cannot end before they do), and no live
\* ball is ever left with its top edge below the play area.
C20_BallsLeave ==
    /\ [](\A i \in 1..Len(balls) : ~(balls[i].y - BALL_RADIUS > HEIGHT))
    /\ \A k \in 1..START_LIVES : (spawned >= k) ~> (Gone >= k)
    /\ \A k \in START_LIVES + 1..START_LIVES + MaxKeys :
          (spawned >= k) ~> (Gone >= k \/ game_over)

\* a ball has been caught, two have been missed, and another is falling
C20_Witness ==
    /\ ~game_over
    /\ score = 1
    /\ lives = 1
    /\ Gone = START_LIVES
    /\ Len(balls) > 0

====
